---------------------------- MODULE Spec2Model ----------------------------
(***************************************************************************)
(* A model of cloudscraper: the CloudTrax dashboard scraper.               *)
(*                                                                         *)
(*   src/cloudscraper.py     the monolithic script: distill_html, Node,    *)
(*                           User, CloudTrax and the main flow             *)
(*   src/lib/cloudtrax.py    the library CloudTrax: distill_html,          *)
(*                           percentage, get_checkin_data, the refreshes   *)
(*                                                                         *)
(* Text is modelled as sequences of one-character strings where the code   *)
(* formats or edits it (hex colours, numbers with commas) and as opaque    *)
(* strings elsewhere.  A float is modelled as the exact rational           *)
(* [num, den] it approximates; a Python 2 int stays an integer.            *)
(***************************************************************************)
EXTENDS Integers, Sequences, FiniteSets, TLC

VARIABLES
    fin,          \* pure-function harness: the arguments of the call
    fout,         \* pure-function harness: the outcome of the call
    variant,      \* which CloudTrax runs: "lib" (lib/cloudtrax.py) or "script"
    pc,           \* where control is: idle, a method, exited, raised, done
    op,           \* the method the caller invoked last
    session,      \* self.session: none, new, authenticated
    nodes,        \* self.nodes
    users,        \* self.users
    rows,         \* refresh_nodes: the distilled rows being decoded
    idx,          \* refresh_nodes: the row the loop is at
    ret,          \* what the last call returned
    exit_code,    \* the argument of exit(), -1 while running
    exc,          \* the exception that propagated out of the last call
    args,         \* main flow: the parsed command line
    mainpc,       \* main flow: the next call of the script
    calls,        \* history: calls made by the caller
    entry,        \* history: the caches when the last call was made
    trace,        \* history: calls, requests and appends of the last call
    page,         \* history: the list-page response of the last call
    login_resp,   \* history: the outcome of the login POST
    posts,        \* history: login POSTs issued
    gets,         \* history: GETs issued
    node_fetches, \* history: GETs of the node-list page
    user_fetches, \* history: GETs of the user-list page
    node_misses,  \* history: get_nodes calls that met an empty cache
    user_misses,  \* history: get_users calls that met an empty cache
    explicit      \* history: refresh_nodes/refresh_users called directly

fnVars == <<fin, fout>>
objVars == <<variant, pc, op, session, nodes, users, rows, idx, ret,
             exit_code, exc, args, mainpc>>
histVars == <<calls, entry, trace, page, login_resp, posts, gets,
              node_fetches, user_fetches, node_misses, user_misses, explicit>>
vars == <<fnVars, objVars, histVars>>

None == [none |-> TRUE]

(***************************************************************************)
(* Bounds of the model.                                                    *)
(***************************************************************************)
MaxWidth == 4        \* every strip of width 0..MaxWidth over all colours
StripWidth == 12     \* bordered two-colour strips of exactly this width

(***************************************************************************)
(* Python values: exceptions, floats, integer division.                    *)
(***************************************************************************)
Raise(e) == [exc |-> e]
Raised(r) == r.exc # ""

\* a float, as the exact rational it approximates
Frac(n, d) == [num |-> n, den |-> d]
FracEq(f, n, d) == f.num * d = n * f.den
FracLeq(f, k) == IF f.den > 0 THEN f.num <= k * f.den ELSE f.num >= k * f.den
FracGeq(f, k) == IF f.den > 0 THEN f.num >= k * f.den ELSE f.num <= k * f.den
\* f1 + f2 + f3 <= k, denominators equal (as the decoders produce them)
FracSum3Leq(f1, f2, f3, k) ==
    FracLeq(Frac(f1.num + f2.num + f3.num, f1.den), k)

Abs(n) == IF n < 0 THEN -n ELSE n

\* Python 2 `a / b` on ints: floor division, b # 0
PyIntDiv(a, b) ==
    LET q == Abs(a) \div Abs(b)
        exact == (Abs(a) % Abs(b)) = 0
    IN  IF (a >= 0) = (b > 0) THEN q
        ELSE IF exact THEN -q ELSE -(q + 1)

(***************************************************************************)
(* "%x" formatting of a colour channel, and the three-channel colour key.  *)
(***************************************************************************)
HexDigits == <<"0", "1", "2", "3", "4", "5", "6", "7",
               "8", "9", "a", "b", "c", "d", "e", "f">>

RECURSIVE FormatHex(_)
FormatHex(n) ==
    IF n < 16 THEN <<HexDigits[n + 1]>>
    ELSE FormatHex(n \div 16) \o <<HexDigits[(n % 16) + 1]>>

\* str("%x%x%x" % (p[0], p[1], p[2]))
pixel_colour(p) == FormatHex(p[1]) \o FormatHex(p[2]) \o FormatHex(p[3])

KeyOffline == <<"c", "c", "c", "c", "c", "c">>
KeyGateway == <<"1", "f", "a", "a", "5", "f">>
KeyRelay   == <<"4", "f", "d", "d", "8", "f">>
KeyBlack   == <<"0", "0", "0">>

\* colour_counter = {'cccccc': 0, '1faa5f': 0, '4fdd8f': 0}
colour_counter0 == [k \in {KeyOffline, KeyGateway, KeyRelay} |-> 0]

(***************************************************************************)
(* Checkin images.  Only the size and pixel row 1 are read, so an image is *)
(* [ok, h, row1]: whether the bytes decode, the height, and row 1 as RGB   *)
(* triples (its length is the width).                                      *)
(***************************************************************************)
RgbGateway == <<31, 170, 95>>
RgbRelay   == <<79, 221, 143>>
RgbOffline == <<204, 204, 204>>
RgbBlack   == <<0, 0, 0>>
RgbWhite   == <<255, 255, 255>>
Colours == {RgbGateway, RgbRelay, RgbOffline, RgbBlack, RgbWhite}

BadImage == [ok |-> FALSE, h |-> 0, row1 |-> <<>>]
Image(h, row) == [ok |-> TRUE, h |-> h, row1 |-> row]
Width(img) == Len(img.row1)

SeqsUpTo(S, n) == UNION {[1..k -> S] : k \in 0..n}

SmallStrips == {Image(h, row) : h \in {1, 2}, row \in SeqsUpTo(Colours, MaxWidth)}
\* a black border column, StripWidth - 2 data columns, a black border column
BorderedStrips ==
    {Image(2, <<RgbBlack>> \o d \o <<RgbBlack>>) :
        d \in [1..(StripWidth - 2) -> {RgbOffline, RgbGateway}]}
Images == {BadImage} \cup SmallStrips \cup BorderedStrips

(***************************************************************************)
(* The counting loop shared by both decoders.                              *)
(***************************************************************************)
\* one pass of `for col in range(0, width)`: lib/cloudtrax.py 141-149
CountLib(cc, p) ==
    LET k == pixel_colour(p)
    IN  IF k \in DOMAIN cc THEN [cc EXCEPT ![k] = @ + 1]
        ELSE (k :> 1) @@ cc

\* cloudscraper.py 223-229: the extra test `pixel_colour != '000'`
CountScript(cc, p) ==
    LET k == pixel_colour(p)
    IN  IF k \in DOMAIN cc /\ k # KeyBlack THEN [cc EXCEPT ![k] = @ + 1]
        ELSE (k :> 1) @@ [j \in DOMAIN cc \ {k} |-> cc[j]]

RECURSIVE CountLoopLib(_, _, _)
CountLoopLib(cc, row, col) ==
    IF col > Len(row) THEN cc
    ELSE CountLoopLib(CountLib(cc, row[col]), row, col + 1)

RECURSIVE CountLoopScript(_, _, _)
CountLoopScript(cc, row, col) ==
    IF col > Len(row) THEN cc
    ELSE CountLoopScript(CountScript(cc, row[col]), row, col + 1)

(***************************************************************************)
(* lib/cloudtrax.py: percentage and the decoding half of get_checkin_data. *)
(***************************************************************************)
\* (float(value) * 100) / max_value
percentage(value, max_value) ==
    IF max_value = 0 THEN Raise("ZeroDivisionError")
    ELSE [exc |-> "", val |-> Frac(value * 100, max_value)]

\* get_checkin_data from Image.open on: the response body is `img`
get_checkin_data(img) ==
    IF ~img.ok THEN Raise("IOError")
    ELSE IF Width(img) > 0 /\ img.h < 2 THEN Raise("IndexError")
    ELSE
        LET cc == CountLoopLib(colour_counter0, img.row1, 1)
            gw == percentage(cc[KeyGateway], Width(img) - 2)
            relay == percentage(cc[KeyRelay], Width(img) - 2)
            offline == percentage(cc[KeyOffline], Width(img) - 2)
        IN  IF Raised(gw) THEN gw
            ELSE [exc |-> "", time_as_gw |-> gw.val,
                  time_as_relay |-> relay.val,
                  time_offline |-> offline.val]

(***************************************************************************)
(* cloudscraper.py: the decoding half of Node.scrape_checkin_data.         *)
(* The counters and the width are Python 2 ints, so `/` floors.            *)
(***************************************************************************)
ScriptPercent(count, width) ==
    IF width - 2 = 0 THEN Raise("ZeroDivisionError")
    ELSE [exc |-> "", val |-> Frac(PyIntDiv(count, width - 2) * 100, 1)]

scrape_checkin_data(img) ==
    IF ~img.ok THEN Raise("IOError")
    ELSE IF Width(img) > 0 /\ img.h < 2 THEN Raise("IndexError")
    ELSE
        LET cc == CountLoopScript(colour_counter0, img.row1, 1)
            gw == ScriptPercent(cc[KeyGateway], Width(img))
            relay == ScriptPercent(cc[KeyRelay], Width(img))
            offline == ScriptPercent(cc[KeyOffline], Width(img))
        IN  IF Raised(gw) THEN gw
            ELSE [exc |-> "", time_as_gw |-> gw.val,
                  time_as_relay |-> relay.val,
                  time_offline |-> offline.val]

(***************************************************************************)
(* The pure-function specifications leave the CloudTrax object untouched.  *)
(***************************************************************************)
NoObject ==
    /\ variant = "lib" /\ pc = "off" /\ op = "none" /\ session = "none"
    /\ nodes = <<>> /\ users = <<>> /\ rows = <<>> /\ idx = 1
    /\ ret = None /\ exit_code = -1 /\ exc = ""
    /\ args = None /\ mainpc = 1
    /\ calls = 0 /\ entry = None /\ trace = <<>> /\ page = None
    /\ login_resp = None /\ posts = 0 /\ gets = 0
    /\ node_fetches = 0 /\ user_fetches = 0
    /\ node_misses = 0 /\ user_misses = 0 /\ explicit = FALSE

(***************************************************************************)
(* SpecCheckin: each decoder applied to every image of Images.             *)
(***************************************************************************)
InitCheckin ==
    /\ fin \in {[fn |-> "checkin", img |-> i] : i \in Images}
    /\ fout = None
    /\ NoObject

ApplyGetCheckinData ==
    /\ fin.fn = "checkin" /\ fout = None
    /\ fout' = [fn |-> "get_checkin_data"] @@ get_checkin_data(fin.img)
    /\ UNCHANGED <<fin, objVars, histVars>>

ApplyScrapeCheckinData ==
    /\ fin.fn = "checkin" /\ fout = None
    /\ fout' = [fn |-> "scrape_checkin_data"] @@ scrape_checkin_data(fin.img)
    /\ UNCHANGED <<fin, objVars, histVars>>

NextCheckin == ApplyGetCheckinData \/ ApplyScrapeCheckinData

SpecCheckin == InitCheckin /\ [][NextCheckin]_vars


(***************************************************************************)
(* Parsed HTML, as BeautifulSoup holds it: a tree of tags, each with its   *)
(* id and class attributes and its children, and text leaves.  findAll     *)
(* searches all descendants in document order; find returns the first      *)
(* match or None.                                                          *)
(***************************************************************************)
Text(v) == [tag |-> "#text", text |-> v]
Tag(t, id, class, kids) == [tag |-> t, id |-> id, class |-> class, kids |-> kids]
Td(kids) == Tag("td", "", "", kids)
Th(kids) == Tag("th", "", "", kids)
Tr(kids) == Tag("tr", "", "", kids)
Table(id, class, kids) == Tag("table", id, class, kids)
Doc(kids) == Tag("[document]", "", "", kids)

IsText(e) == e.tag = "#text"

RECURSIVE Descendants(_)
\* every node below the nodes of `kids`, in document order
Descendants(kids) ==
    IF kids = <<>> THEN <<>>
    ELSE LET k == Head(kids)
         IN  <<k>> \o (IF IsText(k) THEN <<>> ELSE Descendants(k.kids))
                   \o Descendants(Tail(kids))

\* tag.findAll(name)
findAll(e, name) ==
    SelectSeq(Descendants(e.kids), LAMBDA d : d.tag = name)

\* tag.findAll(text=True)
findAllText(e) ==
    LET ts == SelectSeq(Descendants(e.kids), IsText)
    IN  [i \in 1..Len(ts) |-> ts[i].text]

\* an identifier is one attribute and its value: {'id': 'mytable'}
Ident(attr, val) == [attr |-> attr, val |-> val]
IdMytable == Ident("id", "mytable")
ClassInlineSortable == Ident("class", "inline sortable")

Matches(e, element, identifier) ==
    /\ e.tag = element
    /\ IF identifier.attr = "id" THEN e.id = identifier.val
       ELSE e.class = identifier.val

\* BeautifulSoup(content).find(element, identifier)
find(content, element, identifier) ==
    LET ms == SelectSeq(Descendants(content.kids),
                        LAMBDA d : Matches(d, element, identifier))
    IN  IF ms = <<>> THEN None ELSE Head(ms)

(***************************************************************************)
(* distill_html (the same text in cloudscraper.py 74-92 and                *)
(* lib/cloudtrax.py 58-76).                                                *)
(***************************************************************************)
\* for cell in row.findAll('td'): raw_values.append(cell.findAll(text=True))
RawValues(row) ==
    LET cells == findAll(row, "td")
    IN  [i \in 1..Len(cells) |-> findAllText(cells[i])]

\* mutant of KeepRow: blank rows kept
KeepRowAlways(raw_values) == TRUE

\* Watch out for blank rows: if len(raw_values) > 0
KeepRow(raw_values) == Len(raw_values) > 0

RECURSIVE DistillRows(_, _, _)
\* for row in distilled_table.findAll('tr'), from row i on
DistillRows(trs, i, distilled_text) ==
    IF i > Len(trs) THEN distilled_text
    ELSE LET raw_values == RawValues(trs[i])
         IN  DistillRows(trs, i + 1,
                 IF KeepRow(raw_values)
                 THEN Append(distilled_text, raw_values)
                 ELSE distilled_text)

distill_html(content, element, identifier) ==
    IF element = "table"
    THEN LET distilled_table == find(content, element, identifier)
         IN  IF distilled_table = None
             THEN Raise("AttributeError")   \* None has no findAll
             ELSE [exc |-> "",
                   val |-> DistillRows(findAll(distilled_table, "tr"), 1, <<>>)]
    ELSE [exc |-> "", val |-> <<>>]


(***************************************************************************)
(* cloudscraper.py: NODE_STATUS and Node.__init__.                         *)
(* A distilled row `values` is a sequence of cells, each a sequence of     *)
(* text fragments; Python's values[i][j] is values[i + 1][j + 1] here.     *)
(***************************************************************************)
NODE_STATUS ==
    [gw_down |-> "1", relay_down |-> "2", gw_up |-> "3", relay_up |-> "4",
     spare_gw_down |-> "5", spare_down |-> "6", spare_gw_up |-> "7",
     spare_up |-> "8"]

\* an attribute the constructor never assigned
Unset == "<unset>"

\* the fragments a constructor reads from each cell: an IndexError otherwise
HasCells(values, need) ==
    /\ Len(values) >= Len(need)
    /\ \A i \in 1..Len(need) : Len(values[i]) >= need[i]

NodeNeeds == <<1, 1, 2, 2, 1, 2, 1, 2, 2, 1, 2, 1, 1>>

\* the if/elif chain of Node.__init__ on values[0][0]
NodeTypeStatus(code) ==
    IF code = NODE_STATUS.gw_up THEN <<"gateway", "up">>
    ELSE IF code = NODE_STATUS.gw_down THEN <<"gateway", "down">>
    ELSE IF code = NODE_STATUS.relay_up THEN <<"relay", "down">>
    ELSE IF code = NODE_STATUS.relay_down THEN <<"relay", "down">>
    ELSE IF code = NODE_STATUS.spare_gw_up THEN <<"spare", "up">>
    ELSE IF code = NODE_STATUS.spare_gw_down THEN <<"spare", "down">>
    ELSE IF code = NODE_STATUS.spare_up THEN <<"spare", "up">>
    ELSE IF code = NODE_STATUS.spare_down THEN <<"spare", "down">>
    ELSE <<Unset, Unset>>

Last(s) == s[Len(s)]

\* Node(session, values, checkin_url); `img` is the body the checkin GET
\* of scrape_checkin_data receives
\* `fetched`: the constructor got as far as the checkin GET (line 161)
Node__init__(values, img) ==
    IF ~HasCells(values, NodeNeeds)
    THEN [exc |-> "IndexError", fetched |-> FALSE]
    ELSE
        LET ts == NodeTypeStatus(values[1][1])
            checkin == scrape_checkin_data(img)
        IN  IF Raised(checkin) THEN [exc |-> checkin.exc, fetched |-> TRUE]
            ELSE [exc |-> "", fetched |-> TRUE,
                  val |-> [node_type |-> ts[1], node_status |-> ts[2],
                           name |-> values[2][1], comment |-> Last(values[2]),
                           mac |-> values[3][1], ip |-> values[3][2],
                           chan_24 |-> values[4][1], chan_58 |-> values[4][2],
                           users_24 |-> values[5][1],
                           download_24 |-> values[6][1],
                           upload_24 |-> values[6][2],
                           uptime |-> values[7][1],
                           fw_version |-> values[8][1],
                           fw_name |-> values[8][2],
                           load |-> values[9][1], memfree |-> values[9][2],
                           time_since_checkin |-> values[10][1],
                           gateway_name |-> values[11][1],
                           gateway_ip |-> values[11][2],
                           hops |-> values[12][1], latency |-> values[13][1],
                           time_as_gw |-> checkin.time_as_gw,
                           time_as_relay |-> checkin.time_as_relay,
                           time_offline |-> checkin.time_offline]]

\* Node.get_type: return self.node_type, an attribute the constructor may
\* not have assigned
Node_get_type(node) ==
    IF node.node_type = Unset THEN Raise("AttributeError")
    ELSE [exc |-> "", val |-> node.node_type]

(***************************************************************************)
(* cloudscraper.py: User.__init__.                                         *)
(***************************************************************************)
UserNeeds == <<1, 2, 0, 1, 2, 1, 1, 0, 1>>

\* mutant of StripCommas: only the first comma removed
StripFirstComma(s) ==
    IF \E i \in 1..Len(s) : s[i] = ","
    THEN LET i == CHOOSE i \in 1..Len(s) :
                      s[i] = "," /\ \A j \in 1..(i - 1) : s[j] # ","
         IN  SubSeq(s, 1, i - 1) \o SubSeq(s, i + 1, Len(s))
    ELSE s

\* s.replace(',', '') on a text held as a sequence of characters
StripCommas(s) == SelectSeq(s, LAMBDA c : c # ",")

User__init__(values) ==
    IF ~HasCells(values, UserNeeds) THEN Raise("IndexError")
    ELSE [exc |-> "",
          val |-> [name |-> values[1][1], mac |-> Last(values[1]),
                   node_name |-> values[2][1], node_mac |-> values[2][2],
                   rssi |-> values[4][1], rate |-> values[5][1],
                   MCS |-> values[5][2],
                   kb_down |-> StripCommas(values[6][1]),
                   kb_up |-> StripCommas(values[7][1]),
                   blocked |-> values[9][1]]]

(***************************************************************************)
(* cloudscraper.py: User.get_dl_usage / get_ul_usage,                      *)
(*     '%.2f' % (float(self.values['kb_down']) / 1000)                     *)
(* float() parses the text, `/ 1000` is the IEEE double division, '%.2f'   *)
(* prints the double correctly rounded to two decimals (ties to even).     *)
(* With n the integer parsed, n / 1000 has three decimals: the third       *)
(* decides the rounding unless it is 5, when the printed digit depends on  *)
(* whether the double nearest to n / 1000 lies below it, above it or on    *)
(* it.  That double is floor or ceiling of n * 2^k / 1000 scaled back, k   *)
(* placing the quotient in [2^52, 2^53), so the side is read off the       *)
(* remainder of n * 2^k modulo 1000.                                       *)
(***************************************************************************)
Digits == <<"0", "1", "2", "3", "4", "5", "6", "7", "8", "9">>
IsDigit(c) == \E i \in 1..Len(Digits) : Digits[i] = c
DigitValue(c) == (CHOOSE i \in 1..Len(Digits) : Digits[i] = c) - 1

RECURSIVE ParseDigits(_, _)
ParseDigits(s, acc) ==
    IF s = <<>> THEN acc
    ELSE ParseDigits(Tail(s), acc * 10 + DigitValue(Head(s)))

\* float(text) on the texts a usage cell holds: an unsigned decimal integer
\* parses, a text with any other character is a ValueError
float(text) ==
    IF Len(text) > 0 /\ \A i \in 1..Len(text) : IsDigit(text[i])
    THEN [exc |-> "", val |-> ParseDigits(text, 0)]
    ELSE Raise("ValueError")

RECURSIVE Pow2Mod(_, _)
Pow2Mod(k, m) == IF k = 0 THEN 1 % m ELSE (2 * Pow2Mod(k - 1, m)) % m

\* the binary exponent e of n / 1000: 2^e <= n / 1000 < 2^(e + 1), n > 0
RECURSIVE ExpUp(_, _)
ExpUp(n, p) == IF 2 * p <= n THEN 1 + ExpUp(n, 2 * p) ELSE 0
RECURSIVE ExpDown(_)
ExpDown(m) == IF m >= 1000 THEN 0 ELSE 1 + ExpDown(2 * m)
BinaryExponent(n) == IF n >= 1000 THEN ExpUp(n, 1000) ELSE -ExpDown(n)

\* the side of n / 1000 on which the double float(n) / 1000 lies:
\* -1 below, 0 equal, 1 above
DivisionErrorSign(n) ==
    IF n = 0 THEN 0
    ELSE LET k == 52 - BinaryExponent(n)
             rem == ((n % 1000) * Pow2Mod(k, 1000)) % 1000
         IN  IF rem = 0 THEN 0 ELSE IF rem < 500 THEN -1 ELSE 1

\* the hundredths '%.2f' prints for float(n) / 1000
Round2(n) ==
    LET q == n \div 10
        r == n % 10
        side == DivisionErrorSign(n)
    IN  IF r < 5 THEN q
        ELSE IF r > 5 THEN q + 1
        ELSE IF side < 0 THEN q
        ELSE IF side > 0 THEN q + 1
        ELSE IF q % 2 = 0 THEN q ELSE q + 1

RECURSIVE IntText(_)
IntText(n) ==
    IF n < 10 THEN <<Digits[n + 1]>>
    ELSE IntText(n \div 10) \o <<Digits[(n % 10) + 1]>>

\* the text of h hundredths with two decimals
FormatFixed2(h) ==
    IntText(h \div 100)
        \o <<".", Digits[((h % 100) \div 10) + 1], Digits[(h % 10) + 1]>>

Usage(text) ==
    LET f == float(text)
    IN  IF Raised(f) THEN f
        ELSE [exc |-> "", val |-> FormatFixed2(Round2(f.val))]

get_dl_usage(user) == Usage(user.kb_down)
get_ul_usage(user) == Usage(user.kb_up)

(***************************************************************************)
(* Rows as the dashboard serves them.                                      *)
(***************************************************************************)
NodeRow(code, namecell, mac) ==
    << <<code>>, namecell, <<mac, "10.0.0.1">>, <<"6", "36">>, <<"5">>,
       <<"12.3", "4.5">>, <<"1d">>, <<"r481", "ng">>, <<"0.10", "52%">>,
       <<"2 min">>, <<"gw1", "10.0.0.2">>, <<"1">>, <<"10">> >>

UserRow(mac, kb_down, kb_up) ==
    << <<"phone", mac>>, <<"node1", "m1">>, <<"vendor">>, <<"-60">>,
       <<"54", "7">>, <<kb_down>>, <<kb_up>>, <<"x">>, <<"no">> >>

Macs == {"m1", "m2"}
StatusCodes == {"0", "1", "2", "3", "4", "5", "6", "7", "8", "9"}
NameCells == {<<"node1">>, <<"node1", "(roof)">>}

\* a good strip, a strip of width 2, and bytes that are no image
GoodStrip == Image(2, <<RgbBlack, RgbGateway, RgbOffline, RgbBlack>>)
NarrowStrip == Image(2, <<RgbBlack, RgbBlack>>)
NodeImages == {GoodStrip, NarrowStrip, BadImage}

NodeRows ==
    {NodeRow(c, n, m) : c \in StatusCodes, n \in NameCells, m \in Macs}
\* a row one cell short
ShortNodeRow == SubSeq(NodeRow("3", <<"node1">>, "m1"), 1, 12)

(***************************************************************************)
(* SpecNode: Node construction on every row of NodeRows.                   *)
(***************************************************************************)
InitNode ==
    /\ fin \in {[fn |-> "Node", values |-> v, img |-> i] :
                   v \in NodeRows \cup {ShortNodeRow}, i \in NodeImages}
    /\ fout = None
    /\ NoObject

ApplyNode ==
    /\ fin.fn = "Node" /\ fout = None
    /\ fout' = [fn |-> "Node"] @@ Node__init__(fin.values, fin.img)
    /\ UNCHANGED <<fin, objVars, histVars>>

\* draw_table asks each constructed Node for its type
ApplyNodeGetType ==
    /\ fin.fn = "Node" /\ fout # None /\ fout.fn = "Node" /\ fout.exc = ""
    /\ fout' = [fn |-> "get_type", node |-> fout.val]
                    @@ Node_get_type(fout.val)
    /\ UNCHANGED <<fin, objVars, histVars>>

NextNode == ApplyNode \/ ApplyNodeGetType

SpecNode == InitNode /\ [][NextNode]_vars

(***************************************************************************)
(* SpecUser: User construction and the two usage getters on user rows      *)
(* whose usage cells hold every amount 0..MaxKb written with thousands     *)
(* separators, larger amounts, stray commas and a text that is no number.  *)
(***************************************************************************)
MaxKb == 2700    \* kb_down ranges over 0..MaxKb

RECURSIVE WithCommas(_)
WithCommas(n) ==
    IF n < 1000 THEN IntText(n)
    ELSE WithCommas(n \div 1000)
             \o <<",", Digits[((n % 1000) \div 100) + 1],
                   Digits[((n % 100) \div 10) + 1], Digits[(n % 10) + 1]>>

OddTexts ==
    {WithCommas(1234567), <<",", "7", ",", ",", "5">>, <<"n", "/", "a">>}
DownTexts == {WithCommas(n) : n \in 0..MaxKb} \cup OddTexts
UpTexts == {WithCommas(1005)} \cup OddTexts

\* a row one cell short
ShortUserRow == SubSeq(UserRow("u1", <<"1">>, <<"2">>), 1, 8)

InitUser ==
    /\ fin \in {[fn |-> "User", values |-> v] :
                   v \in {UserRow("u1", d, u) : d \in DownTexts, u \in UpTexts}
                          \cup {ShortUserRow}}
    /\ fout = None
    /\ NoObject

ApplyUser ==
    /\ fin.fn = "User" /\ fout = None
    /\ fout' = [fn |-> "User"] @@ User__init__(fin.values)
    /\ UNCHANGED <<fin, objVars, histVars>>

ApplyGetDlUsage ==
    /\ fin.fn = "User" /\ fout # None /\ fout.fn = "User" /\ fout.exc = ""
    /\ fout' = [fn |-> "get_dl_usage", user |-> fout.val]
                    @@ get_dl_usage(fout.val)
    /\ UNCHANGED <<fin, objVars, histVars>>

ApplyGetUlUsage ==
    /\ fin.fn = "User" /\ fout # None /\ fout.fn = "User" /\ fout.exc = ""
    /\ fout' = [fn |-> "get_ul_usage", user |-> fout.val]
                    @@ get_ul_usage(fout.val)
    /\ UNCHANGED <<fin, objVars, histVars>>

NextUser == ApplyUser \/ ApplyGetDlUsage \/ ApplyGetUlUsage

SpecUser == InitUser /\ [][NextUser]_vars

(***************************************************************************)
(* SpecDistill: distill_html on every document of Docs.                    *)
(***************************************************************************)
MaxTr == 4      \* rows of the target table

CellA == Td(<<Text("a")>>)
CellBC == Td(<<Text("b"), Text("c")>>)
InnerTable == Table("", "", <<Tr(<<Td(<<Text("y")>>)>>)>>)
RowShapes ==
    { Tr(<<>>),                              \* <tr></tr>
      Tr(<<Th(<<Text("h")>>)>>),             \* a header row: no td
      Tr(<<CellA>>),
      Tr(<<CellBC, CellA>>),
      Tr(<<Td(<<>>)>>),                      \* one cell without text
      Tr(<<Td(<<Text("x"), InnerTable>>)>>)  \* a table nested in a cell
    }
\* the row enters the output: it has a td below it
IsDataRow(tr) == \E i \in 1..Len(Descendants(tr.kids)) :
                     Descendants(tr.kids)[i].tag = "td"

OtherTable == Table("other", "plain", <<Tr(<<CellA>>)>>)
Targets == {Table("mytable", "inline sortable", trs) :
               trs \in SeqsUpTo(RowShapes, MaxTr)}
Docs ==
    {Doc(<<t>>) : t \in Targets}
    \cup {Doc(<<OtherTable, t, Table("mytable", "", <<>>)>>) : t \in Targets}
    \cup {Doc(<<>>), Doc(<<OtherTable>>), Doc(<<Text("Please log in")>>)}

InitDistill ==
    /\ fin \in {[fn |-> "distill_html", content |-> d, element |-> e,
                 identifier |-> k] :
                   d \in Docs, e \in {"table"},
                   k \in {IdMytable, ClassInlineSortable}}
              \cup {[fn |-> "distill_html", content |-> Doc(<<OtherTable>>),
                     element |-> "div", identifier |-> Ident("id", "other")]}
    /\ fout = None
    /\ NoObject

ApplyDistill ==
    /\ fin.fn = "distill_html" /\ fout = None
    /\ fout' = [fn |-> "distill_html"]
               @@ distill_html(fin.content, fin.element, fin.identifier)
    /\ UNCHANGED <<fin, objVars, histVars>>

NextDistill == ApplyDistill

SpecDistill == InitDistill /\ [][NextDistill]_vars


(***************************************************************************)
(* The dashboard: what a request may answer.  A response is the exception  *)
(* the request raised, or a status code and a body (a parsed document for  *)
(* a list page, an image for the checkin page).                            *)
(***************************************************************************)
MaxRows == 2     \* <tr> elements of a served list table
MaxCalls == 3    \* calls a caller of the CloudTrax object makes

Resp(status, content) ==
    [exc |-> "", status_code |-> status, content |-> content]
ConnectionError == Raise("ConnectionError")

\* the <tr> a distilled row comes from
RowTr(values) ==
    Tr([i \in 1..Len(values) |->
           Td([j \in 1..Len(values[i]) |-> Text(values[i][j])])])

RowA == NodeRow("3", <<"node1">>, "m1")
RowB == NodeRow("4", <<"node2", "(roof)">>, "m2")
UserA == UserRow("u1", <<"1", ",", "2", "5", "0">>, <<"9", "9">>)
UserB == UserRow("u2", <<"7">>, <<"1", ",", "0", "0", "0", ",", "0", "0", "0">>)

\* the tables a list page may hold: up to MaxRows <tr>, no row twice
\* (a node or a user is listed once)
DistinctSeqsUpTo(S, n) ==
    {q \in SeqsUpTo(S, n) : \A i, j \in 1..Len(q) : q[i] = q[j] => i = j}

LoginPage == Doc(<<Text("Please log in")>>)
NodeDocs ==
    {Doc(<<Table("mytable", "", r)>>) :
        r \in DistinctSeqsUpTo({RowTr(RowA), RowTr(RowB), Tr(<<>>)}, MaxRows)}
    \cup {LoginPage}
UserDocs ==
    {Doc(<<Table("", "inline sortable", r)>>) :
        r \in DistinctSeqsUpTo({RowTr(UserA), RowTr(UserB)}, MaxRows)}
    \cup {LoginPage}

ErrorStatuses == {404, 500}
NodeResponses ==
    {Resp(200, d) : d \in NodeDocs}
    \cup {Resp(st, Doc(<<Table("mytable", "", <<RowTr(RowA)>>)>>)) :
             st \in ErrorStatuses}
    \cup {ConnectionError}
UserResponses ==
    {Resp(200, d) : d \in UserDocs}
    \cup {Resp(st, Doc(<<Table("", "inline sortable", <<RowTr(UserA)>>)>>)) :
             st \in ErrorStatuses}
    \cup {ConnectionError}
\* the checkin page answers a readable strip or a body that is no image
CheckinResponses == {Resp(200, i) : i \in {GoodStrip, BadImage}}
LoginResponses ==
    {Resp(st, LoginPage) : st \in {200, 204, 304, 403, 500}}
    \cup {ConnectionError}

\* events of the trace
EvCall(fn) == [ev |-> "call", what |-> fn]
EvPost(url) == [ev |-> "POST", what |-> url]
EvGet(url, mac) == [ev |-> "GET", what |-> url, mac |-> mac]
EvAppend(i) == [ev |-> "append", what |-> "nodes", row |-> i]

(***************************************************************************)
(* CloudTrax (lib/cloudtrax.py 85-231; cloudscraper.py 287-405 is the same *)
(* class with refresh_nodes named refresh_network_status, the session made *)
(* by login instead of the constructor, and Node doing the checkin fetch). *)
(***************************************************************************)
\* mutant of raise_for_status: only a server error raises
raise_for_server_error(status) == status >= 500 /\ status < 600

\* request.raise_for_status(): HTTPError for a 4xx or 5xx answer
raise_for_status(status) == status >= 400 /\ status < 600

\* mutants of CacheEmpty: the test inverted, the test dropped
CacheEmptyFlipped(cache) == Len(cache) # 0
CacheEmptyAlways(cache) == TRUE

\* len(self.nodes) == 0, len(self.users) == 0
CacheEmpty(cache) == Len(cache) = 0

\* mutant of Cleared: the reset forgotten
Kept(cache) == cache

\* self.nodes = [], self.users = []
Cleared(cache) == <<>>

\* mutant of Is200: every status below 500 taken for a success
IsBelow500(status) == status < 500

\* request.status_code == 200
Is200(status) == status = 200

\* lib.node.Node(raw_values, checkin) and lib.user.User(raw_values): the
\* record made of the constructor's arguments
LibNode(values, checkin) ==
    [values |-> values, time_as_gw |-> checkin.time_as_gw,
     time_as_relay |-> checkin.time_as_relay,
     time_offline |-> checkin.time_offline]
LibUser(values) == [values |-> values]

\* what a row must hold for the checkin request to be sent:
\* raw_values[2][0] (lib), every field Node.__init__ stores (script)
CanFetch(values) ==
    IF variant = "lib" THEN HasCells(values, <<0, 0, 1>>)
    ELSE HasCells(values, NodeNeeds)

\* mutant of CheckinMac: the second fragment of the cell (the ip)
CheckinIp(values) == values[3][2]

\* the mac the checkin GET is sent for: raw_values[2][0] (lib),
\* self.mac = values[2][0] (script)
CheckinMac(values) == values[3][1]

\* the Node of one row, given the body of its checkin response
BuildNode(values, img) ==
    IF variant = "lib"
    THEN LET c == get_checkin_data(img)
         IN  IF Raised(c) THEN c
             ELSE [exc |-> "", val |-> LibNode(values, c)]
    ELSE Node__init__(values, img)

BuildUser(values) ==
    IF variant = "lib" THEN [exc |-> "", val |-> LibUser(values)]
    ELSE User__init__(values)

RECURSIVE UsersLoop(_, _, _)
\* for raw_values in distill_html(...): self.users.append(User(raw_values))
UsersLoop(rs, i, acc) ==
    IF i > Len(rs) THEN [exc |-> "", val |-> acc]
    ELSE LET u == BuildUser(rs[i])
         IN  IF Raised(u) THEN [exc |-> u.exc, val |-> acc]
             ELSE UsersLoop(rs, i + 1, Append(acc, u.val))

\* the caller invokes method o
Call(o) ==
    /\ pc' = o /\ op' = o
    /\ calls' = calls + 1
    /\ entry' = [nodes |-> nodes, users |-> users]
    /\ trace' = <<>> /\ page' = None /\ ret' = None /\ exc' = ""
    /\ rows' = <<>> /\ idx' = 1
    /\ node_misses' = IF o = "get_nodes" /\ Len(nodes) = 0
                      THEN node_misses + 1 ELSE node_misses
    /\ user_misses' = IF o = "get_users" /\ Len(users) = 0
                      THEN user_misses + 1 ELSE user_misses
    /\ explicit' = (explicit \/ o \in {"refresh_nodes", "refresh_users"})
    /\ UNCHANGED <<fnVars, variant, session, nodes, users, exit_code, args,
                   login_resp, posts, gets, node_fetches, user_fetches>>

\* an exception leaves the method
Propagate(e) ==
    /\ pc' = "raised" /\ exc' = e
    /\ UNCHANGED <<ret, exit_code>>

\* exit(code)
Exit(code) ==
    /\ pc' = "exited" /\ exit_code' = code
    /\ UNCHANGED <<ret, exc>>

\* return value
Return(value) ==
    /\ pc' = "idle" /\ ret' = value
    /\ UNCHANGED <<exit_code, exc>>

login ==
    /\ pc = "login"
    /\ \E r \in LoginResponses :
        /\ login_resp' = r
        /\ posts' = posts + 1
        /\ trace' = Append(trace, EvPost("login"))
        /\ IF Raised(r) \/ raise_for_status(r.status_code)
           THEN /\ Exit(1)
                /\ session' = IF variant = "script" THEN "new" ELSE session
           ELSE /\ Return("session")
                /\ session' = "authenticated"
    /\ UNCHANGED <<fnVars, variant, op, nodes, users, rows, idx, args, mainpc,
                   calls, entry, page, gets, node_fetches, user_fetches,
                   node_misses, user_misses, explicit>>

get_nodes ==
    /\ pc = "get_nodes"
    /\ IF CacheEmpty(nodes)
       THEN /\ pc' = "refresh_nodes"
            /\ trace' = Append(trace, EvCall("refresh_nodes"))
            /\ UNCHANGED <<ret, exit_code, exc>>
       ELSE /\ Return(nodes)
            /\ UNCHANGED trace
    /\ UNCHANGED <<fnVars, variant, op, session, nodes, users, rows, idx,
                   args, mainpc, calls, entry, page, login_resp, posts, gets,
                   node_fetches, user_fetches, node_misses, user_misses,
                   explicit>>

get_users ==
    /\ pc = "get_users"
    /\ IF CacheEmpty(users)
       THEN /\ pc' = "refresh_users"
            /\ trace' = Append(trace, EvCall("refresh_users"))
            /\ UNCHANGED <<ret, exit_code, exc>>
       ELSE /\ Return(users)
            /\ UNCHANGED trace
    /\ UNCHANGED <<fnVars, variant, op, session, nodes, users, rows, idx,
                   args, mainpc, calls, entry, page, login_resp, posts, gets,
                   node_fetches, user_fetches, node_misses, user_misses,
                   explicit>>

\* refresh_nodes up to the loop over the distilled rows
refresh_nodes ==
    /\ pc = "refresh_nodes"
    /\ nodes' = Cleared(nodes)
    /\ \E r \in NodeResponses :
        /\ trace' = Append(trace, EvGet("data", ""))
        /\ page' = r
        /\ gets' = gets + 1
        /\ node_fetches' = node_fetches + 1
        /\ IF Raised(r)
           THEN Propagate(r.exc) /\ UNCHANGED <<rows, idx>>
           ELSE IF Is200(r.status_code)
           THEN LET d == distill_html(r.content, "table", IdMytable)
                IN  IF Raised(d)
                    THEN Propagate(d.exc) /\ UNCHANGED <<rows, idx>>
                    ELSE /\ rows' = d.val /\ idx' = 1
                         /\ pc' = "node_rows"
                         /\ UNCHANGED <<ret, exit_code, exc>>
           ELSE Exit(r.status_code) /\ UNCHANGED <<rows, idx>>
    /\ UNCHANGED <<fnVars, variant, op, session, users, args, mainpc, calls,
                   entry, login_resp, posts, user_fetches, node_misses,
                   user_misses, explicit>>

\* one pass of the loop of refresh_nodes, or its end: return self.nodes
node_rows ==
    /\ pc = "node_rows"
    /\ IF idx > Len(rows)
       THEN /\ Return(nodes)
            /\ UNCHANGED <<nodes, idx, trace, gets>>
       ELSE LET values == rows[idx]
            IN  IF ~CanFetch(values)
                THEN /\ Propagate("IndexError")
                     /\ UNCHANGED <<nodes, idx, trace, gets>>
                ELSE \E r \in CheckinResponses :
                     LET n == IF Raised(r) THEN r
                              ELSE BuildNode(values, r.content)
                         get == EvGet("checkin", CheckinMac(values))
                     IN  /\ gets' = gets + 1
                         /\ IF Raised(n)
                            THEN /\ Propagate(n.exc)
                                 /\ trace' = Append(trace, get)
                                 /\ UNCHANGED <<nodes, idx>>
                            ELSE /\ nodes' = Append(nodes, n.val)
                                 /\ idx' = idx + 1
                                 /\ trace' = trace \o <<get, EvAppend(idx)>>
                                 /\ UNCHANGED <<pc, ret, exit_code, exc>>
    /\ UNCHANGED <<fnVars, variant, op, session, users, rows, args, mainpc,
                   calls, entry, page, login_resp, posts, node_fetches,
                   user_fetches, node_misses, user_misses, explicit>>

refresh_users ==
    /\ pc = "refresh_users"
    /\ \E r \in UserResponses :
        /\ trace' = Append(trace, EvGet("user", ""))
        /\ page' = r
        /\ gets' = gets + 1
        /\ user_fetches' = user_fetches + 1
        /\ IF Raised(r)
           THEN Propagate(r.exc) /\ users' = Cleared(users)
           ELSE IF Is200(r.status_code)
           THEN LET d == distill_html(r.content, "table",
                                      ClassInlineSortable)
                IN  IF Raised(d)
                    THEN Propagate(d.exc) /\ users' = Cleared(users)
                    ELSE LET us == UsersLoop(d.val, 1, Cleared(users))
                         IN  /\ users' = us.val
                             /\ IF Raised(us) THEN Propagate(us.exc)
                                ELSE Return(us.val)
           ELSE Exit(r.status_code) /\ users' = Cleared(users)
    /\ UNCHANGED <<fnVars, variant, op, session, nodes, rows, idx, args,
                   mainpc, calls, entry, login_resp, posts, node_fetches,
                   node_misses, user_misses, explicit>>

(***************************************************************************)
(* Spec: a caller that makes up to MaxCalls calls of the get and refresh   *)
(* methods, in any order, on one CloudTrax object, and goes on after an    *)
(* exception.  The object of lib/cloudtrax.py is taken as constructed (the *)
(* constructor makes the session); the object of cloudscraper.py is taken  *)
(* after login(), which makes its session.                                 *)
(***************************************************************************)
Methods == {"get_nodes", "get_users", "refresh_nodes", "refresh_users"}

InitObject ==
    /\ fin = None /\ fout = None
    /\ op = "none"
    /\ nodes = <<>> /\ users = <<>> /\ rows = <<>> /\ idx = 1
    /\ ret = None /\ exit_code = -1 /\ exc = ""
    /\ mainpc = 1
    /\ calls = 0 /\ entry = None /\ trace = <<>> /\ page = None
    /\ login_resp = None /\ posts = 0 /\ gets = 0
    /\ node_fetches = 0 /\ user_fetches = 0
    /\ node_misses = 0 /\ user_misses = 0 /\ explicit = FALSE

Init ==
    /\ InitObject
    /\ variant \in {"lib", "script"}
    /\ session = IF variant = "lib" THEN "new" ELSE "authenticated"
    /\ pc = "idle"
    /\ args = None

ClientCall ==
    /\ pc \in {"idle", "raised"}
    /\ calls < MaxCalls
    /\ \E o \in Methods : Call(o)
    /\ UNCHANGED mainpc

Next ==
    \/ ClientCall
    \/ get_nodes
    \/ refresh_nodes
    \/ node_rows
    \/ get_users
    \/ refresh_users

Spec == Init /\ [][Next]_vars

(***************************************************************************)
(* SpecMain: cloudscraper.py run from the command line (lines 412-449).    *)
(***************************************************************************)
MainProgram(a) ==
    <<"login">> \o
    (IF a.screen
     THEN <<"get_nodes", "get_users", "get_nodes", "get_nodes", "get_nodes",
            "get_users">>
     ELSE <<>>)

InitMain ==
    /\ InitObject
    /\ variant = "script"
    /\ session = "none"
    /\ pc = "start"
    /\ args \in [network : BOOLEAN, screen : BOOLEAN]

\* if args.network: cloudtrax = CloudTrax(...)  else: print_help(); exit(1)
MainStart ==
    /\ pc = "start"
    /\ IF args.network THEN pc' = "idle" /\ UNCHANGED exit_code
       ELSE pc' = "exited" /\ exit_code' = 1
    /\ UNCHANGED <<fnVars, variant, op, session, nodes, users, rows, idx, ret,
                   exc, args, mainpc, histVars>>

\* the next call of the script, or its end
MainCall ==
    /\ pc = "idle"
    /\ IF mainpc <= Len(MainProgram(args))
       THEN Call(MainProgram(args)[mainpc]) /\ mainpc' = mainpc + 1
       ELSE pc' = "done" /\ UNCHANGED <<fnVars, variant, op, session, nodes,
                                        users, rows, idx, ret, exit_code, exc,
                                        args, mainpc, histVars>>

NextMain ==
    \/ MainStart
    \/ MainCall
    \/ login
    \/ get_nodes
    \/ refresh_nodes
    \/ node_rows
    \/ get_users
    \/ refresh_users

SpecMain == InitMain /\ [][NextMain]_vars


(***************************************************************************)
(* Properties.                                                             *)
(***************************************************************************)
Called(fn) == fout # None /\ fout.fn = fn
Returned(fn) == Called(fn) /\ fout.exc = ""

\* the closed table of status codes: code -> (kind, up/down)
CodeTable ==
    ("1" :> <<"gateway", "down">>) @@ ("2" :> <<"relay", "down">>) @@
    ("3" :> <<"gateway", "up">>)   @@ ("4" :> <<"relay", "up">>) @@
    ("5" :> <<"spare", "down">>)   @@ ("6" :> <<"spare", "down">>) @@
    ("7" :> <<"spare", "up">>)     @@ ("8" :> <<"spare", "up">>)

\* C1: for each of the status codes '1'..'8' and every 13-cell row with that
\* code in cell 0, the constructed Node has the kind and the up/down status
\* the closed table gives for the code.
C1_NodeKindStatusTable ==
    (Returned("Node") /\ fin.values[1][1] \in DOMAIN CodeTable)
    => <<fout.val.node_type, fout.val.node_status>>
           = CodeTable[fin.values[1][1]]

\* row-1 pixels of one colour, and a strip a decoder can read
PixelCount(img, rgb) ==
    Cardinality({c \in 1..Width(img) : img.row1[c] = rgb})
IsStrip(img) == img.ok /\ img.h >= 2 /\ Width(img) > 2

ExactPercentages(r, img) ==
    /\ r.exc = ""
    /\ FracEq(r.time_as_gw, PixelCount(img, RgbGateway) * 100, Width(img) - 2)
    /\ FracEq(r.time_as_relay, PixelCount(img, RgbRelay) * 100, Width(img) - 2)
    /\ FracEq(r.time_offline, PixelCount(img, RgbOffline) * 100, Width(img) - 2)

\* C2: for every strip of width W > 2, both decoders (get_checkin_data and
\* scrape_checkin_data) give, for the gateway, relay and offline colours,
\* exactly count / (W - 2) * 100 with no truncation, count being the row-1
\* pixels of that colour.
C2_RealValuedPercentages ==
    \A fn \in {"get_checkin_data", "scrape_checkin_data"} :
        (Called(fn) /\ IsStrip(fin.img)) => ExactPercentages(fout, fin.img)

\* C3: for every strip of width W > 2, whatever the colours of its W
\* columns, the three percentages of get_checkin_data lie between 0 and 100
\* and sum to at most 100.
C3_PercentagesSumAtMost100 ==
    (Called("get_checkin_data") /\ IsStrip(fin.img))
    => /\ fout.exc = ""
       /\ \A f \in {fout.time_as_gw, fout.time_as_relay, fout.time_offline} :
              FracGeq(f, 0) /\ FracLeq(f, 100)
       /\ FracSum3Leq(fout.time_as_gw, fout.time_as_relay,
                      fout.time_offline, 100)

\* the rows the claim expects of table t: one per <tr> with a <td> below
\* it, in document order, each the list of its cells' text fragments
ExpectedRows(t) ==
    LET trs == findAll(t, "tr")
        data == SelectSeq(trs, IsDataRow)
    IN  [i \in 1..Len(data) |->
            LET tds == findAll(data[i], "td")
            IN  [j \in 1..Len(tds) |-> findAllText(tds[j])]]

TargetOf(f) == find(f.content, f.element, f.identifier)

\* C9: when the document holds the target table, distill_html returns one
\* entry per <tr> of the table with at least one <td>, in document order,
\* each the ordered list of its cells' text-fragment lists; no entry is
\* empty, and rows without cells never appear.
C9_DistillKeepsRowsWithCells ==
    (Called("distill_html") /\ fin.element = "table" /\ TargetOf(fin) # None)
    => /\ fout.exc = ""
       /\ fout.val = ExpectedRows(TargetOf(fin))
       /\ \A i \in 1..Len(fout.val) : Len(fout.val[i]) > 0
       /\ Len(fout.val)
            = Cardinality({i \in 1..Len(findAll(TargetOf(fin), "tr")) :
                              IsDataRow(findAll(TargetOf(fin), "tr")[i])})

\* a table of 3 data rows and 1 <tr></tr> distilled to exactly 3 rows
C9_ThreeOfFourRows ==
    /\ Returned("distill_html") /\ fin.element = "table"
    /\ TargetOf(fin) # None
    /\ LET trs == findAll(TargetOf(fin), "tr")
       IN  /\ Len(trs) = 4
           /\ Cardinality({i \in 1..4 : trs[i] = Tr(<<>>)}) = 1
           /\ Cardinality({i \in 1..4 : IsDataRow(trs[i])}) = 3
    /\ Len(fout.val) = 3

\* events of one kind in the trace of the last call
Count(ev, what) ==
    Cardinality({i \in 1..Len(trace) : trace[i].ev = ev /\ trace[i].what = what})

NodeOps == {"get_nodes", "refresh_nodes"}
UserOps == {"get_users", "refresh_users"}
Got200 == page # None /\ page.exc = "" /\ page.status_code = 200
GotNon200 == page # None /\ page.exc = "" /\ page.status_code # 200
PageIdent == IF op \in NodeOps THEN IdMytable ELSE ClassInlineSortable

\* C10: when the fetched document holds no table matching the locator,
\* distill_html fails with the MalformedDocument error and the refresh that
\* called it does not complete.
C10_MissingTableIsMalformedDocument ==
    (Got200 /\ find(page.content, "table", PageIdent) = None)
    => pc = "raised" /\ exc = "MalformedDocument" /\ ret = None

\* C4: get_nodes (get_users) called with a non-empty cache returns exactly
\* that collection, issues no request and leaves both caches unchanged;
\* called with an empty cache it runs exactly one refresh and returns the
\* refreshed collection.
C4_GetReturnsCacheOrRefreshesOnce ==
    /\ (op = "get_nodes" /\ Len(entry.nodes) > 0)
       => /\ trace = <<>> /\ nodes = entry.nodes /\ users = entry.users
          /\ pc \in {"get_nodes", "idle"}
          /\ pc = "idle" => ret = entry.nodes
    /\ (op = "get_nodes" /\ Len(entry.nodes) = 0 /\ pc = "idle")
       => /\ Count("call", "refresh_nodes") = 1 /\ Count("GET", "data") = 1
          /\ ret = nodes /\ Len(ret) = Count("append", "nodes")
          /\ users = entry.users
    /\ (op = "get_users" /\ Len(entry.users) > 0)
       => /\ trace = <<>> /\ nodes = entry.nodes /\ users = entry.users
          /\ pc \in {"get_users", "idle"}
          /\ pc = "idle" => ret = entry.users
    /\ (op = "get_users" /\ Len(entry.users) = 0 /\ pc = "idle")
       => /\ Count("call", "refresh_users") = 1 /\ Count("GET", "user") = 1
          /\ ret = users /\ nodes = entry.nodes

\* get_nodes has answered from a cache an earlier call filled
C4_CacheHit ==
    /\ pc = "idle" /\ op = "get_nodes"
    /\ Len(entry.nodes) > 0 /\ ret = entry.nodes /\ trace = <<>>

\* C5 as stated: with no explicit refresh call, the node-list page and the
\* user-list page are each fetched at most once, whatever the page holds.
C5_ListPagesFetchedAtMostOnce ==
    ~explicit => (node_fetches <= 1 /\ user_fetches <= 1)

\* C5 as amended: with no explicit refresh call, a get call fetches its list
\* page at most once and only when it met an empty cache, so the page is
\* never fetched again once the cache holds a record; a page that yields no
\* record leaves the cache empty and the next get call fetches it again.
C5_FetchOnlyOnEmptyCache ==
    ~explicit
    => /\ node_fetches <= node_misses
       /\ user_fetches <= user_misses
       /\ op = "get_nodes"
          => Count("GET", "data") <= (IF Len(entry.nodes) = 0 THEN 1 ELSE 0)
       /\ op = "get_users"
          => Count("GET", "user") <= (IF Len(entry.users) = 0 THEN 1 ELSE 0)

\* the node-list page fetched a second time, having yielded no row
C5_RefetchAfterEmptyTable ==
    /\ ~explicit /\ node_fetches = 2 /\ node_misses = 2
    /\ pc = "idle" /\ op = "get_nodes" /\ nodes = <<>>
    /\ Got200 /\ TargetOf([content |-> page.content, element |-> "table",
                           identifier |-> IdMytable]) # None

\* the record was built from the distilled row `values`
BuiltFrom(record, values) ==
    IF variant = "lib" THEN record.values = values
    ELSE IF op \in NodeOps
         THEN record.mac = values[3][1] /\ record.name = values[2][1]
         ELSE record.mac = Last(values[1]) /\ record.name = values[1][1]

RefreshDone(refresh, get) ==
    /\ pc = "idle"
    /\ op = refresh \/ (op = get /\ Count("call", refresh) = 1)

\* C6: a refresh that receives 200 issues exactly one GET of the list page
\* and replaces the cache wholesale: afterwards the cache holds one record
\* per distilled row of the response, in row order, and nothing cached
\* before; refresh_nodes leaves the users and refresh_users the nodes.
C6_RefreshReplacesCacheWholesale ==
    /\ RefreshDone("refresh_nodes", "get_nodes")
       => /\ Got200 /\ Count("GET", "data") = 1 /\ Count("GET", "user") = 0
          /\ LET d == ExpectedRows(find(page.content, "table", IdMytable))
             IN  /\ Len(nodes) = Len(d)
                 /\ \A i \in 1..Len(d) : BuiltFrom(nodes[i], d[i])
          /\ users = entry.users
    /\ RefreshDone("refresh_users", "get_users")
       => /\ Got200 /\ Count("GET", "user") = 1 /\ Count("GET", "data") = 0
          /\ LET d == ExpectedRows(find(page.content, "table",
                                        ClassInlineSortable))
             IN  /\ Len(users) = Len(d)
                 /\ \A i \in 1..Len(d) : BuiltFrom(users[i], d[i])
          /\ nodes = entry.nodes

\* an explicit refresh_nodes has replaced a non-empty cache by other records
\* while users were cached
C6_ReplacedNonEmptyCache ==
    /\ pc = "idle" /\ op = "refresh_nodes"
    /\ Len(entry.nodes) > 0 /\ Len(nodes) > 0 /\ nodes[1] # entry.nodes[1]
    /\ Len(users) > 0

\* C7: when the list-page GET of a refresh answers a status other than 200,
\* the process exits with that status as the exit value; no row is
\* distilled or decoded and no checkin GET is issued for that refresh.
C7_Non200Exits ==
    /\ GotNon200
       => /\ pc = "exited" /\ exit_code = page.status_code
          /\ rows = <<>>
          /\ Count("GET", "checkin") = 0 /\ Count("append", "nodes") = 0
          /\ op \in NodeOps => nodes = <<>>
          /\ op \in UserOps => users = <<>>
    /\ (pc = "exited" /\ op \in NodeOps \cup UserOps) => GotNon200

\* get_nodes has ended the process with 404 on a page that holds a row
C7_ExitedWith404 ==
    /\ pc = "exited" /\ op = "get_nodes" /\ exit_code = 404
    /\ GotNon200
    /\ Len(ExpectedRows(find(page.content, "table", IdMytable))) > 0

LoginAnswered == login_resp # None
Non2xx(r) == Raised(r) \/ r.status_code < 200 \/ r.status_code > 299
Is4xx5xx(r) == Raised(r) \/ (r.status_code >= 400 /\ r.status_code <= 599)

\* C8 as stated: login posts once; a non-2xx answer or a connection failure
\* ends the process with status 1, with no retry and no GET in that run;
\* every GET of a run is preceded by a successful login.
C8_Non2xxLoginTerminates ==
    /\ posts <= 1
    /\ (LoginAnswered /\ Non2xx(login_resp))
       => pc = "exited" /\ exit_code = 1 /\ gets = 0
    /\ gets > 0 => (LoginAnswered /\ ~Non2xx(login_resp))

\* C8 as amended: login posts once; a 4xx or 5xx answer (the statuses
\* raise_for_status raises HTTPError for) or a ConnectionError ends the
\* process with exit(1), with no retry and no GET in that run; any other
\* answer, a 3xx included, counts as a successful login; every GET of a run
\* of cloudscraper.py is preceded by a login that returned.
C8_FailedLoginTerminates ==
    /\ posts <= 1
    /\ (LoginAnswered /\ Is4xx5xx(login_resp))
       => pc = "exited" /\ exit_code = 1 /\ gets = 0 /\ posts = 1
    /\ (LoginAnswered /\ ~Is4xx5xx(login_resp))
       => session = "authenticated" /\ pc # "login"
    /\ gets > 0
       => /\ LoginAnswered /\ ~Is4xx5xx(login_resp)
          /\ session = "authenticated" /\ posts = 1

\* the run has ended on a 403 answer to the login POST
C8_ExitedOn403 ==
    /\ pc = "exited" /\ exit_code = 1 /\ posts = 1 /\ gets = 0
    /\ LoginAnswered /\ ~Raised(login_resp) /\ login_resp.status_code = 403
    /\ mainpc = 2


(***************************************************************************)
(* Unknown status codes.                                                   *)
(***************************************************************************)
KnownCodes == {NODE_STATUS[k] : k \in DOMAIN NODE_STATUS}

\* C11: when cell 0 of a node row holds a status token outside the 8 known
\* codes, Node construction fails with UnknownStatusCode: it produces no
\* Node and does not reach the checkin-image fetch.
C11_UnknownCodeFailsLoudly ==
    (Called("Node") /\ HasCells(fin.values, <<1>>)
        /\ fin.values[1][1] \notin KnownCodes)
    => (fout.exc = "UnknownStatusCode" /\ ~fout.fetched)


(***************************************************************************)
(* Narrow checkin images.                                                  *)
(***************************************************************************)
\* C12: for every checkin image of width 0, 1 or 2, get_checkin_data fails
\* with InvalidCheckinImage and returns no percentage triple.
C12_NarrowImageIsInvalid ==
    (Called("get_checkin_data") /\ fin.img.ok /\ Width(fin.img) <= 2)
    => fout.exc = "InvalidCheckinImage"


(***************************************************************************)
(* User usage figures.                                                     *)
(***************************************************************************)
\* the characters of a text other than commas, in order
RECURSIVE NoCommas(_)
NoCommas(t) ==
    IF t = <<>> THEN <<>>
    ELSE IF Head(t) = "," THEN NoCommas(Tail(t))
    ELSE <<Head(t)>> \o NoCommas(Tail(t))

\* an amount: digits and commas, at least one digit
IsAmount(t) ==
    /\ \A i \in 1..Len(t) : t[i] = "," \/ IsDigit(t[i])
    /\ \E i \in 1..Len(t) : IsDigit(t[i])

ValidUserRow(values) ==
    /\ Len(values) = 9 /\ HasCells(values, UserNeeds)
    /\ IsAmount(values[6][1]) /\ IsAmount(values[7][1])

\* text is a numeral with exactly two decimals, a nearest hundredth of
\* n / 1000
IsRounded2(text, n) ==
    /\ Len(text) >= 4
    /\ text[Len(text) - 2] = "."
    /\ \A i \in 1..Len(text) : i # Len(text) - 2 => IsDigit(text[i])
    /\ LET h == ParseDigits(SelectSeq(text, IsDigit), 0)
       IN  10 * h - 5 <= n /\ n <= 10 * h + 5

\* C13: for every valid 9-cell user row, the User record stores kb_down and
\* kb_up with every comma removed, and get_dl_usage / get_ul_usage are
\* kb_down / 1000 and kb_up / 1000 rounded to exactly two decimal places.
C13_UsageStrippedAndRounded ==
    ValidUserRow(fin.values) =>
        /\ Called("User") =>
              /\ fout.exc = ""
              /\ fout.val.kb_down = NoCommas(fin.values[6][1])
              /\ fout.val.kb_up = NoCommas(fin.values[7][1])
        /\ Called("get_dl_usage") =>
              /\ fout.exc = ""
              /\ IsRounded2(fout.val,
                            ParseDigits(NoCommas(fin.values[6][1]), 0))
        /\ Called("get_ul_usage") =>
              /\ fout.exc = ""
              /\ IsRounded2(fout.val,
                            ParseDigits(NoCommas(fin.values[7][1]), 0))

\* witness: 1,005 kB down, stored as 1005, reported as 1.00 (the double
\* nearest to 1.005 lies below it)
C13_TieBelow ==
    /\ Called("get_dl_usage")
    /\ fin.values[6][1] = <<"1", ",", "0", "0", "5">>
    /\ fout.user.kb_down = <<"1", "0", "0", "5">>
    /\ fout.exc = "" /\ fout.val = <<"1", ".", "0", "0">>


(***************************************************************************)
(* The checkin fetches of one refresh_nodes.                               *)
(***************************************************************************)
IsCheckinGet(e) == e.ev = "GET" /\ e.what = "checkin"
CheckinPos == {p \in 1..Len(trace) : IsCheckinGet(trace[p])}
Rank(p) == Cardinality({q \in CheckinPos : q <= p})
ListPos == {p \in 1..Len(trace) : trace[p].ev = "GET" /\ trace[p].what = "data"}
AppendedAt(a, i) == trace[a].ev = "append" /\ trace[a].row = i

\* a node refresh whose 200 answer has been distilled: `rows` is what
\* distill_html returned (a missing table raises AttributeError instead)
InNodeRefresh ==
    /\ op \in NodeOps /\ Got200
    /\ pc \in {"node_rows", "idle", "raised"}
    /\ pc = "raised" => exc # "AttributeError"

\* the checkin GETs issued so far are those of the first rows, in row order,
\* each with its row's mac and after the list-page GET, and the GET of a
\* row follows the append of the row before it
SequentialSoFar(d) ==
    /\ Cardinality(ListPos) = 1
    /\ \A p \in CheckinPos :
          LET j == Rank(p)
          IN  /\ j <= Len(d)
              /\ trace[p].mac = d[j][3][1]
              /\ \A l \in ListPos : l < p
              /\ j > 1 =>
                    \E q \in CheckinPos, a \in 1..Len(trace) :
                        /\ Rank(q) = j - 1
                        /\ AppendedAt(a, j - 1)
                        /\ q < a /\ a < p

C15_FailedRefreshCachesNothing ==
    (InNodeRefresh /\ pc = "raised") => Len(nodes) = 0

=============================================================================
